---- MODULE Spec2Model ----
(***************************************************************************)
(* movids: synchronisation of locally stored motion-detection media with   *)
(* a remote event catalog.  The model follows the latest revision of the   *)
(* pipeline (process -> fetchRecords -> fetchMedia -> fetchSnapshots /     *)
(* fetchVideos), one action per stretch of code between two awaits.        *)
(*                                                                         *)
(* Representation of JavaScript values:                                    *)
(*   - timestamps and counts are non-negative integers; null, undefined    *)
(*     and NaN are the negative numbers Null, Missing and NaN,             *)
(*   - a string is a sequence of one-character strings, "" and undefined   *)
(*     names are both << >> (both are falsy in `name || ...`),             *)
(*   - undefined as the result of createDirectory is << >>.                *)
(***************************************************************************)
EXTENDS Integers, Sequences, FiniteSets, TLC

VARIABLES
    config,      \* the configuration object (restApi.endpoints.motions, ipcamsd)
    options,     \* config.options, set by process(options)
    pc,          \* position of the run's single thread of control
    fs,          \* directories existing in the working directory
    files,       \* file names in the directory of the event under retrieval
    request,     \* the HTTP request / delegate call in flight
    count,       \* local `count` of fetchRecords
    data,        \* local `data` of fetchRecords
    i,           \* loop index of fetchRecords
    j,           \* loop index of fetchSnapshots
    startDate,   \* local `startDate` of fetchMedia (ms)
    endDate,     \* local `endDate` of fetchMedia (ms)
    directoryName, \* local `directoryName` of fetchMedia
    out,         \* lines written by log() in this run
    catalogGets, \* catalog GETs issued in this run
    received,    \* the response the catalog GET of this run settled with
    thrown,      \* the errors raised in this run, in order
    mkdirs,      \* directories created by fs.mkdirSync in this run, in order
    snapGets,    \* snapshot GETs issued in this run: <<event index, snapshot index>>
    videoCalls,  \* delegate invocations in this run: event indexes
    visited,     \* events reached in this run: [name, start, end, created]
    incomplete   \* directories left behind by a run that died inside their retrieval

vars == <<config, options, pc, fs, files, request, count, data, i, j,
          startDate, endDate, directoryName, out, catalogGets, received,
          thrown, mkdirs, snapGets, videoCalls, visited, incomplete>>

-----------------------------------------------------------------------------
(* Bounds of the model *)

MaxEvents == 2      \* longest event list a catalog response carries
MaxDescriptors == 100   \* longest snapshot collection of an event
MaxCameras == 2     \* longest camera roster

-----------------------------------------------------------------------------
(* Values *)

Null == -1          \* null
Missing == -2       \* undefined, where a number is expected
NaN == -3           \* the value of an invalid moment
Undefined == << >>  \* undefined, where a string is expected

(* JavaScript truthiness of a number or of null / undefined *)
Truthy(v) == v \notin {Null, Missing, NaN, 0}

MsPerSecond == 1000
MsPerMinute == 60000
SecondsPerDay == 86400

RECURSIVE Reverse(_)
Reverse(s) == IF s = << >> THEN << >> ELSE Append(Reverse(Tail(s)), Head(s))

RECURSIVE Digits(_)
(* String(n) for a natural number n *)
Digits(n) ==
    LET d == <<"0", "1", "2", "3", "4", "5", "6", "7", "8", "9">>[(n % 10) + 1]
    IN  IF n < 10 THEN <<d>> ELSE Append(Digits(n \div 10), d)

RECURSIVE Zeros(_)
(* new Array(cnt).join('0'): cnt - 1 zeros *)
Zeros(cnt) == IF cnt <= 1 THEN << >> ELSE <<"0">> \o Zeros(cnt - 1)

(* s.slice(-cnt) *)
SliceLast(s, cnt) ==
    IF Len(s) <= cnt THEN s ELSE SubSeq(s, Len(s) - cnt + 1, Len(s))

(* padding to the width of the value itself: no zeros are added *)
padWithZerosByValue(value, len) ==
    LET cnt == Len(Digits(value))
    IN  SliceLast(Zeros(cnt) \o Digits(value), cnt)

padWithZeros(value, len) ==
    LET cnt == Len(Digits(len))
    IN  SliceLast(Zeros(cnt) \o Digits(value), cnt)

-----------------------------------------------------------------------------
(* Time Window Resolver: getDate, setTime, getTimes                        *)
(* A Moment.js instance is [defined, valid, day, hour, minute, second, ms] *)
(* in local time; day 0 of the model's calendar is 2024-01-01, so that     *)
(* valueOf() stays within the checker's integers.  A command line token is *)
(* [word, digits]: a keyword (word # "") or a string of digits.            *)

EpochYear == 2024

Moment(day, hour, minute, second, ms) ==
    [defined |-> TRUE, valid |-> TRUE, day |-> day, hour |-> hour,
     minute |-> minute, second |-> second, ms |-> ms]

UndefinedDate ==
    [defined |-> FALSE, valid |-> FALSE, day |-> 0, hour |-> 0,
     minute |-> 0, second |-> 0, ms |-> 0]

InvalidDate == [UndefinedDate EXCEPT !.defined = TRUE]

IsLeap(y) == (y % 4 = 0 /\ y % 100 # 0) \/ y % 400 = 0

DaysInMonth(y, m) ==
    IF m = 2 THEN (IF IsLeap(y) THEN 29 ELSE 28)
    ELSE IF m \in {4, 6, 9, 11} THEN 30 ELSE 31

RECURSIVE DaysBeforeMonth(_, _)
DaysBeforeMonth(y, m) ==
    IF m <= 1 THEN 0 ELSE DaysBeforeMonth(y, m - 1) + DaysInMonth(y, m - 1)

RECURSIVE DaysBeforeYear(_)
DaysBeforeYear(y) ==
    IF y <= EpochYear THEN 0
    ELSE DaysBeforeYear(y - 1) + (IF IsLeap(y - 1) THEN 366 ELSE 365)

RECURSIVE Number(_)
(* the number a string of digits denotes *)
Number(ds) ==
    IF ds = << >> THEN 0 ELSE 10 * Number(SubSeq(ds, 1, Len(ds) - 1)) + ds[Len(ds)]

(* moment('YYYYMMDD'): local midnight of a calendar-valid date *)
momentOfDate(ds) ==
    LET y == Number(SubSeq(ds, 1, 4))
        m == Number(SubSeq(ds, 5, 6))
        d == Number(SubSeq(ds, 7, 8))
    IN  IF y >= EpochYear /\ m \in 1..12 /\ d \in 1..DaysInMonth(y, m)
        THEN Moment(DaysBeforeYear(y) + DaysBeforeMonth(y, m) + d - 1, 0, 0, 0, 0)
        ELSE InvalidDate

(* moment(timeStr, format.time) with format.time = 'HHmmss' *)
momentOfTime(ds) ==
    LET hour == Number(SubSeq(ds, 1, IF Len(ds) < 2 THEN Len(ds) ELSE 2))
        minute == IF Len(ds) < 3 THEN 0
                  ELSE Number(SubSeq(ds, 3, IF Len(ds) < 4 THEN Len(ds) ELSE 4))
        second == IF Len(ds) < 5 THEN 0
                  ELSE Number(SubSeq(ds, 5, IF Len(ds) < 6 THEN Len(ds) ELSE 6))
    IN  IF hour <= 23 /\ minute <= 59 /\ second <= 59
        THEN Moment(0, hour, minute, second, 0)
        ELSE InvalidDate

(* String.prototype.toLowerCase on the keywords of the model *)
toLowerCase(w) ==
    CASE w \in {"Today", "TODAY"} -> "today"
      [] w \in {"Yesterday", "YESTERDAY"} -> "yesterday"
      [] w \in {"Tomorrow", "TOMORROW"} -> "tomorrow"
      [] OTHER -> w

(* getDate without the isValid() test on the parsed token *)
getDateUnvalidated(date, now) ==
    IF date.word = "" /\ date.digits = << >> THEN UndefinedDate
    ELSE IF toLowerCase(date.word) = "today" THEN now
    ELSE IF toLowerCase(date.word) = "yesterday"
         THEN [now EXCEPT !.day = now.day - 1]
    ELSE IF date.word = "" /\ Len(date.digits) = 8
         THEN momentOfDate(date.digits)
    ELSE UndefinedDate

getDate(date, now) ==
    IF date.word = "" /\ date.digits = << >> THEN UndefinedDate
    ELSE IF toLowerCase(date.word) = "today" THEN now
    ELSE IF toLowerCase(date.word) = "yesterday"
         THEN [now EXCEPT !.day = now.day - 1]
    ELSE IF date.word = "" /\ Len(date.digits) = 8
         THEN LET result == momentOfDate(date.digits)
              IN  IF result.valid THEN result ELSE UndefinedDate
    ELSE UndefinedDate

(* setTime that sets the hour alone *)
setTimeHourOnly(date, timeStr) ==
    IF Len(timeStr) >= 1
    THEN LET time == momentOfTime(timeStr)
         IN  IF time.valid
             THEN [date EXCEPT !.hour = time.hour, !.second = 0]
             ELSE [date EXCEPT !.valid = FALSE]
    ELSE date

(* date.set({hour, minute, second: 0}) when a time string is given *)
setTime(date, timeStr) ==
    IF Len(timeStr) >= 1
    THEN LET time == momentOfTime(timeStr)
         IN  IF time.valid
             THEN [date EXCEPT !.hour = time.hour, !.minute = time.minute,
                               !.second = 0]
             ELSE [date EXCEPT !.valid = FALSE]
    ELSE date

(* moment.valueOf() *)
valueOf(m) ==
    IF m.valid
    THEN ((m.day * 24 + m.hour) * 60 + m.minute) * MsPerMinute
         + m.second * MsPerSecond + m.ms
    ELSE NaN

(* getTimes() throws a TypeError when one of the dates is undefined *)
getTimesThrows(opts, now) ==
    \/ ~getDate(opts.startDate, now).defined
    \/ ~getDate(opts.endDate, now).defined

getTimes(opts, now) ==
    [start |-> valueOf(setTime(getDate(opts.startDate, now), opts.startTime)),
     end |-> valueOf(setTime(getDate(opts.endDate, now), opts.endTime))]

-----------------------------------------------------------------------------
(* Inputs: configurations, command line options, catalog responses *)

(* the properties of a camera that getAuthenticationObject reads *)
Keys == {"host", "username", "password", "ssl"}

(* camera k of a roster, with the properties in `present` set; a property
   that is set carries the camera's number, one that is absent or empty
   is undefined *)
Camera(k, present) ==
    [key \in Keys |-> IF key \in present THEN <<k>> ELSE Undefined]

(* config.mjs, and the variations of it the pipeline reads: motions.reverse,
   motions.count, motions.snapshots, ipcamsd.minutesIfEndDateIsNull and
   ipcamsd.cameras *)
DefaultConfig ==
    [reverse |-> TRUE, count |-> TRUE, snapshots |-> TRUE,
     minutesIfEndDateIsNull |-> 3,
     cameras |-> <<Camera(1, {"host", "username", "password"}),
                   Camera(2, {"host", "username", "password"})>>]

Configs ==
    {DefaultConfig,
     [DefaultConfig EXCEPT !.reverse = FALSE],
     [DefaultConfig EXCEPT !.count = FALSE],
     [DefaultConfig EXCEPT !.snapshots = FALSE],
     [DefaultConfig EXCEPT !.minutesIfEndDateIsNull = 1]}

Word(w) == [word |-> w, digits |-> << >>]
Token(ds) == [word |-> "", digits |-> ds]

(* program.opts(): the four required options and the two toggles *)
Options(sd, st, ed, et, snapshots, videos) ==
    [startDate |-> sd, startTime |-> st, endDate |-> ed, endTime |-> et,
     snapshots |-> snapshots, videos |-> videos]

(* program.opts() for a command line: --no-snapshots and --no-videos are
   negatable options, true unless the flag is given *)
programOpts(sd, st, ed, et, flags) ==
    Options(sd, st, ed, et, "--no-snapshots" \notin flags,
            "--no-videos" \notin flags)

(* one window with every setting of the toggles, and without a flag a
   window of keywords and windows that do not resolve *)
OptionsSet ==
    {programOpts(Token(<<2, 0, 2, 4, 0, 1, 0, 3>>), <<0, 9, 3, 0>>, Word("today"),
                 <<2, 3, 5, 9>>, flags) :
        flags \in SUBSET {"--no-snapshots", "--no-videos"}}
    \cup {programOpts(Word("yesterday"), << >>, Word("Today"), << >>, {}),
          programOpts(Word("tomorrow"), <<0, 9, 3, 0>>, Word("today"), << >>, {}),
          programOpts(Token(<<2, 0, 2, 4, 0, 1, 0, 3>>), << >>,
                      Token(<<2, 0, 2, 4, 0, 2, 3, 0>>), << >>, {}),
          programOpts(Token(<<2, 0, 2, 4>>), << >>, Token(<< >>), << >>, {})}

(* readings of the clock by moment() *)
Nows == {Moment(4, 13, 45, 30, 250)}

Descriptor(id, name) == [id |-> id, name |-> name]

Motion(date, end, hasSnapshots, snapshots) ==
    [date |-> date, endDate |-> end, hasSnapshots |-> hasSnapshots,
     snapshots |-> snapshots]

(* Raw events of the catalog.  The first two derive the same directory
   name under the default fallback of three minutes. *)
Motions ==
    {Motion(1000, Missing, TRUE,
            <<Descriptor(1, << >>), Descriptor(2, <<"1">>)>>),
     Motion(1000, 181500, TRUE, << >>),
     Motion(5000, 0, FALSE, << >>),
     Motion(5000, 86400000 + 9000, TRUE, <<Descriptor(3, <<"a">>)>>)}

RECURSIVE SeqsUpTo(_, _)
SeqsUpTo(S, n) ==
    IF n = 0 THEN {<< >>}
    ELSE LET shorter == SeqsUpTo(S, n - 1)
         IN  shorter \cup {Append(s, x) : s \in shorter, x \in S}

(* response of the catalog GET: a failure, or a body whose entries field
   is an array, is absent or is something else, with or without a count *)
Response(ok, hasCount, kind, entries) ==
    [ok |-> ok, count |-> IF hasCount THEN Len(entries) ELSE Missing,
     kind |-> kind, entries |-> entries]

Responses ==
    {Response(FALSE, FALSE, "absent", << >>)}
    \cup {Response(TRUE, c, k, << >>) :
            c \in BOOLEAN, k \in {"absent", "object"}}
    \cup {Response(TRUE, c, "array", e) :
            c \in BOOLEAN, e \in SeqsUpTo(Motions, MaxEvents)}

(* no response yet *)
NoResponse == [ok |-> FALSE, count |-> Missing, kind |-> "none", entries |-> << >>]

-----------------------------------------------------------------------------
(* Event Catalog Client, Event Normalizer, Local Materializer *)

(* What becomes of a failed I/O call: an error is raised, and it leaves
   the enclosing function unless a try block catches it. *)

(* a catalog client that swallows the failure of its GET *)
awaitCatalogCaught(response) ==
    [raised |-> ~response.ok, propagates |-> FALSE]

(* getMotions: await axios.get(url), no try block *)
awaitCatalog(response) ==
    [raised |-> ~response.ok, propagates |-> ~response.ok]

(* a snapshot loop without its try block *)
trySnapshotUncaught(outcome) ==
    [raised |-> outcome # "ok", propagates |-> outcome # "ok"]

(* fetchSnapshots: try { await axios.get; fs.writeFileSync } catch { log } *)
trySnapshot(outcome) ==
    [raised |-> outcome # "ok", propagates |-> FALSE]

(* a delegate call wrapped in a try block *)
awaitDelegateCaught(ok) ==
    [raised |-> ~ok, propagates |-> FALSE]

(* execFetchCommand: await new Ipcamsd().process(...), no try block *)
awaitDelegate(ok) ==
    [raised |-> ~ok, propagates |-> ~ok]

(* an orchestrator that ignores motions.reverse *)
orderEventsKept(cfg, entries) == entries

(* fetchRecords: if (motions.reverse) data = data.reverse() *)
orderEvents(cfg, entries) ==
    IF cfg.reverse THEN Reverse(entries) ELSE entries

(* a catalog client whose caller does not test Array.isArray(data) *)
getMotionsAnyList(cfg, response) ==
    [count |-> IF cfg.count THEN response.count ELSE Null,
     isArray |-> TRUE,
     data |-> response.entries]

(* getMotions: the { count, data } it returns for a response body *)
getMotions(cfg, response) ==
    [count |-> IF cfg.count THEN response.count ELSE Null,
     isArray |-> response.kind = "array",
     data |-> response.entries]

getMotionDates(motion) == [start |-> motion.date, end |-> motion.endDate]

(* fetchMedia: startDate = moment(dates.start) *)
ResolveStart(dates) == dates.start

(* a fallback that adds seconds instead of minutes *)
ResolveEndSeconds(dates, minutes) ==
    IF Truthy(dates.end) THEN dates.end
    ELSE dates.start + minutes * MsPerSecond

(* fetchMedia: endDate = dates.end ? moment(dates.end)
                                   : moment(dates.start).add(minutes, 'minutes') *)
ResolveEnd(dates, minutes) ==
    IF Truthy(dates.end) THEN dates.end
    ELSE dates.start + minutes * MsPerMinute

(* a name that keeps the milliseconds of the end *)
FormatNameWithMillis(start, end) ==
    <<start \div (SecondsPerDay * MsPerSecond),
      (start \div MsPerSecond) % SecondsPerDay,
      end % (SecondsPerDay * MsPerSecond)>>

(* `${startDate.format('YYYYMMDD_HHmmss')}_${endDate.format('HHmmss')}`:
   the start's calendar day and second of the day, the end's second of
   the day *)
FormatName(start, end) ==
    <<start \div (SecondsPerDay * MsPerSecond),
      (start \div MsPerSecond) % SecondsPerDay,
      (end \div MsPerSecond) % SecondsPerDay>>

(* a materializer without the fs.existsSync test *)
createDirectoryAlways(dirs, name) ==
    [fs |-> dirs \cup {name}, result |-> <<name>>]

(* a materializer that forgets to return the directory it created *)
createDirectoryNoReturn(dirs, name) ==
    [fs |-> dirs \cup {name}, result |-> Undefined]

(* a materializer that returns the path of an existing directory too *)
createDirectoryReuse(dirs, name) ==
    IF name \notin dirs
    THEN [fs |-> dirs \cup {name}, result |-> <<name>>]
    ELSE [fs |-> dirs, result |-> <<name>>]

(* createDirectory: the directories afterwards and the value returned *)
createDirectory(dirs, name) ==
    IF name \notin dirs
    THEN [fs |-> dirs \cup {name}, result |-> <<name>>]
    ELSE [fs |-> dirs, result |-> Undefined]

(* fetchMedia: if (opts.snapshots) *)
snapshotsEnabled(opts) == opts.snapshots

(* a fetchMedia that tests the snapshot toggle for the videos *)
videosEnabledBySnapshots(opts) == opts.snapshots

(* fetchMedia: if (opts.videos) *)
videosEnabled(opts) == opts.videos

(* fetchSnapshots: fileNameWithExt of entry k (1-based) of entries *)
FileName(entries, k) ==
    (IF entries[k].name # << >> THEN entries[k].name
     ELSE padWithZeros(k, Len(entries))) \o <<".", "jpg">>

-----------------------------------------------------------------------------
(* The pipeline *)

RECURSIVE Pushed(_, _)
(* the values of one property pushed over the cameras: the truthy ones *)
Pushed(cameras, key) ==
    IF cameras = << >> THEN << >>
    ELSE (IF Head(cameras)[key] # Undefined THEN <<Head(cameras)[key]>>
          ELSE << >>) \o Pushed(Tail(cameras), key)

getAuthenticationObject(cameras) ==
    [hosts |-> Pushed(cameras, "host"),
     usernames |-> Pushed(cameras, "username"),
     passwords |-> Pushed(cameras, "password"),
     ssls |-> Pushed(cameras, "ssl")]

(* a call that carries no authentication object *)
NoAuth == getAuthenticationObject(<< >>)

NoRequest ==
    [kind |-> "none", dir |-> Undefined, a |-> 0, b |-> 0, auth |-> NoAuth]
CatalogRequest(times) ==
    [kind |-> "catalog", dir |-> Undefined, a |-> times.start, b |-> times.end,
     auth |-> NoAuth]
SnapshotRequest(dir, id) ==
    [kind |-> "snapshot", dir |-> dir, a |-> id, b |-> 0, auth |-> NoAuth]
(* fetchVideos: the options of the delegate call *)
VideoRequest(dir, start, end) ==
    [kind |-> "video", dir |-> dir, a |-> start, b |-> end, auth |-> NoAuth]

(* execFetchCommand: the call of the delegate, with the authentication
   object of the roster *)
execFetchCommand(cameras, opts) ==
    [opts EXCEPT !.auth = getAuthenticationObject(cameras)]

Visit(name, start, end, created) ==
    [name |-> name, start |-> start, end |-> end, created |-> created]

Init ==
    /\ config \in Configs
    /\ options = Options(Token(<< >>), << >>, Token(<< >>), << >>, TRUE, TRUE)
    /\ pc = "Idle"
    /\ fs = {}
    /\ files = {}
    /\ request = NoRequest
    /\ count = Null
    /\ data = << >>
    /\ i = 0
    /\ j = 0
    /\ startDate = 0
    /\ endDate = 0
    /\ directoryName = Undefined
    /\ out = << >>
    /\ catalogGets = 0
    /\ received = NoResponse
    /\ thrown = << >>
    /\ mkdirs = << >>
    /\ snapGets = << >>
    /\ videoCalls = << >>
    /\ visited = << >>
    /\ incomplete = {}

(* process(options): config.options = options; a new invocation of the
   tool starts from freshly loaded module state in the same directory *)
Process(opts) ==
    /\ pc \in {"Idle", "Done", "Fatal"}
    /\ options' = opts
    /\ pc' = "ResolvingWindow"
    /\ files' = {}
    /\ request' = NoRequest
    /\ count' = Null
    /\ data' = << >>
    /\ i' = 0
    /\ j' = 0
    /\ startDate' = 0
    /\ endDate' = 0
    /\ directoryName' = Undefined
    /\ out' = << >>
    /\ catalogGets' = 0
    /\ received' = NoResponse
    /\ thrown' = << >>
    /\ mkdirs' = << >>
    /\ snapGets' = << >>
    /\ videoCalls' = << >>
    /\ visited' = << >>
    /\ UNCHANGED <<config, fs, incomplete>>

(* fetchRecords up to `await axios.get(url)` in getMotions *)
GetTimes(now) ==
    /\ pc = "ResolvingWindow"
    /\ IF getTimesThrows(options, now)
       THEN /\ pc' = "Fatal"
            /\ thrown' = Append(thrown, "getTimes")
            /\ UNCHANGED <<request, catalogGets>>
       ELSE /\ pc' = "QueryingCatalog"
            /\ request' = CatalogRequest(getTimes(options, now))
            /\ catalogGets' = catalogGets + 1
            /\ UNCHANGED thrown
    /\ UNCHANGED <<config, options, fs, files, count, data, i, j,
                   startDate, endDate, directoryName, out, received, mkdirs,
                   snapGets, videoCalls, visited, incomplete>>

(* a for loop that steps over every second event *)
AdvanceByTwo ==
    IF i + 1 < Len(data)
    THEN /\ i' = i + 2
         /\ pc' = "Materializing"
    ELSE /\ i' = i
         /\ pc' = "Done"

(* fetchRecords: the for loop's step to the next event, or its end *)
Advance ==
    IF i < Len(data)
    THEN /\ i' = i + 1
         /\ pc' = "Materializing"
    ELSE /\ i' = i
         /\ pc' = "Done"

(* the catalog GET settles: the rest of getMotions and fetchRecords down
   to the first call of fetchMedia *)
CatalogResponse(response) ==
    /\ pc = "QueryingCatalog"
    /\ request' = NoRequest
    /\ received' = response
    /\ thrown' = IF awaitCatalog(response).raised
                 THEN Append(thrown, "catalog") ELSE thrown
    /\ IF awaitCatalog(response).propagates
       THEN /\ pc' = "Fatal"
            /\ UNCHANGED <<count, data, i, out>>
       ELSE LET motions == getMotions(config, response)
            IN  /\ count' = motions.count
                /\ IF motions.isArray
                   THEN /\ data' = orderEvents(config, motions.data)
                        /\ out' = IF motions.count # Null
                                  THEN Append(out, "motions found") ELSE out
                        /\ IF Len(motions.data) > 0
                           THEN i' = 1 /\ pc' = "Materializing"
                           ELSE i' = 0 /\ pc' = "Done"
                   ELSE /\ pc' = "Done"
                        /\ UNCHANGED <<data, i, out>>
    /\ UNCHANGED <<config, options, fs, files, j, startDate, endDate,
                   directoryName, catalogGets, mkdirs, snapGets, videoCalls,
                   visited, incomplete>>

(* fetchMedia down to the test of directoryName; when the directory
   exists already, the else branch and the step to the next event *)
FetchMedia ==
    /\ pc = "Materializing"
    /\ LET dates == getMotionDates(data[i])
           start == ResolveStart(dates)
           end == ResolveEnd(dates, config.minutesIfEndDateIsNull)
           name == FormatName(start, end)
           made == createDirectory(fs, name)
       IN  /\ startDate' = start
           /\ endDate' = end
           /\ fs' = made.fs
           /\ directoryName' = made.result
           /\ visited' = Append(visited,
                                Visit(name, start, end, made.result # Undefined))
           /\ IF made.result # Undefined
              THEN /\ mkdirs' = Append(mkdirs, name)
                   /\ files' = {}
                   /\ out' = out \o <<"", "header">>
                   /\ pc' = "Materialized"
                   /\ i' = i
              ELSE /\ out' = out \o <<"", "header", "already exists">>
                   /\ Advance
                   /\ UNCHANGED <<mkdirs, files>>
    /\ UNCHANGED <<config, options, request, count, data, j, catalogGets,
                   received, thrown, snapGets, videoCalls, incomplete>>

(* fetchMedia: if (opts.snapshots) await fetchSnapshots(...), down to the
   first snapshot GET *)
BeginSnapshots ==
    /\ pc = "Materialized"
    /\ IF snapshotsEnabled(options) /\ config.snapshots
       THEN IF ~data[i].hasSnapshots
            THEN \* entries is undefined: entries.length throws a TypeError
                 /\ pc' = "Fatal"
                 /\ thrown' = Append(thrown, "entries")
                 /\ incomplete' = incomplete \cup {directoryName[1]}
                 /\ UNCHANGED <<j, request, out, snapGets>>
            ELSE LET entries == data[i].snapshots
                 IN  IF Len(entries) > 0
                     THEN /\ j' = 1
                          /\ request' = SnapshotRequest(directoryName, entries[1].id)
                          /\ snapGets' = Append(snapGets, <<i, 1>>)
                          /\ out' = Append(out, "Snapshots")
                          /\ pc' = "FetchingSnapshots"
                          /\ UNCHANGED <<thrown, incomplete>>
                     ELSE /\ out' = out \o <<"Snapshots", "">>
                          /\ pc' = "SnapshotsDone"
                          /\ UNCHANGED <<j, request, snapGets, thrown, incomplete>>
       ELSE /\ pc' = "SnapshotsDone"
            /\ UNCHANGED <<j, request, out, snapGets, thrown, incomplete>>
    /\ UNCHANGED <<config, options, fs, files, count, data, i, startDate,
                   endDate, directoryName, catalogGets, received, mkdirs,
                   videoCalls, visited>>

(* a snapshot GET settles: the try block or the catch block, and the loop
   of fetchSnapshots down to the next GET or to its end *)
SnapshotResponse(outcome) ==
    /\ pc = "FetchingSnapshots"
    /\ LET entries == data[i].snapshots
           try == trySnapshot(outcome)
           line == IF try.raised THEN "Error while fetching file"
                   ELSE "Downloaded file"
       IN  /\ files' = IF try.raised THEN files
                       ELSE files \cup {FileName(entries, j)}
           /\ thrown' = IF try.raised THEN Append(thrown, "snapshot") ELSE thrown
           /\ IF try.propagates
              THEN /\ pc' = "Fatal"
                   /\ request' = NoRequest
                   /\ incomplete' = incomplete \cup {directoryName[1]}
                   /\ UNCHANGED <<j, snapGets, out>>
              ELSE IF j < Len(entries)
              THEN /\ j' = j + 1
                   /\ request' = SnapshotRequest(directoryName, entries[j + 1].id)
                   /\ snapGets' = Append(snapGets, <<i, j + 1>>)
                   /\ out' = Append(out, line)
                   /\ pc' = "FetchingSnapshots"
                   /\ UNCHANGED incomplete
              ELSE /\ request' = NoRequest
                   /\ out' = out \o <<line, "">>
                   /\ pc' = "SnapshotsDone"
                   /\ UNCHANGED <<j, snapGets, incomplete>>
    /\ UNCHANGED <<config, options, fs, count, data, i, startDate, endDate,
                   directoryName, catalogGets, received, mkdirs, videoCalls,
                   visited>>

(* fetchMedia calling fetchVideos without awaiting it: the loop goes on
   while the delegate is still at work *)
BeginVideoNotAwaited ==
    /\ pc = "SnapshotsDone"
    /\ IF videosEnabled(options)
       THEN /\ request' = execFetchCommand(config.cameras,
                             VideoRequest(directoryName, startDate, endDate))
            /\ videoCalls' = Append(videoCalls, i)
            /\ Advance
       ELSE /\ Advance
            /\ UNCHANGED <<request, videoCalls>>
    /\ UNCHANGED <<config, options, fs, files, count, data, j, startDate,
                   endDate, directoryName, out, catalogGets, received, thrown,
                   mkdirs, snapGets, visited, incomplete>>

(* fetchMedia: if (opts.videos) await fetchVideos(...), down to the call
   of the delegate; otherwise the step to the next event *)
BeginVideo ==
    /\ pc = "SnapshotsDone"
    /\ IF videosEnabled(options)
       THEN /\ request' = execFetchCommand(config.cameras,
                             VideoRequest(directoryName, startDate, endDate))
            /\ videoCalls' = Append(videoCalls, i)
            /\ pc' = "FetchingVideo"
            /\ i' = i
       ELSE /\ Advance
            /\ UNCHANGED <<request, videoCalls>>
    /\ UNCHANGED <<config, options, fs, files, count, data, j, startDate,
                   endDate, directoryName, out, catalogGets, received, thrown,
                   mkdirs, snapGets, visited, incomplete>>

(* the delegate's process('fetch', ...) settles: fulfilled, the loop goes
   on; rejected, nothing catches the error *)
VideoResult(ok) ==
    /\ pc = "FetchingVideo"
    /\ request' = NoRequest
    /\ thrown' = IF awaitDelegate(ok).raised
                 THEN Append(thrown, "delegate") ELSE thrown
    /\ IF awaitDelegate(ok).propagates
       THEN /\ pc' = "Fatal"
            /\ i' = i
            /\ incomplete' = incomplete \cup {directoryName[1]}
       ELSE /\ Advance
            /\ UNCHANGED incomplete
    /\ UNCHANGED <<config, options, fs, files, count, data, j, startDate,
                   endDate, directoryName, out, catalogGets, received, mkdirs,
                   snapGets, videoCalls, visited>>

Next ==
    \/ \E opts \in OptionsSet : Process(opts)
    \/ \E now \in Nows : GetTimes(now)
    \/ \E response \in Responses : CatalogResponse(response)
    \/ FetchMedia
    \/ BeginSnapshots
    \/ \E outcome \in {"ok", "get failed", "write failed"} : SnapshotResponse(outcome)
    \/ BeginVideo
    \/ \E ok \in BOOLEAN : VideoResult(ok)

Spec == Init /\ [][Next]_vars

-----------------------------------------------------------------------------
(* Properties *)

Range(s) == {s[k] : k \in 1..Len(s)}

(* the directory name fetchMedia derives for a raw event *)
NameOf(motion) ==
    FormatName(motion.date,
               IF Truthy(motion.endDate) THEN motion.endDate
               ELSE motion.date + config.minutesIfEndDateIsNull * MsPerMinute)

(* snapshot GETs issued for the event at index k, as snapshot indexes *)
SnapshotGetsOf(k) == SelectSeq(snapGets, LAMBDA g : g[1] = k)

(* the directories that existed when this run began *)
FsAtStart == fs \ Range(mkdirs)

(* the event fetchMedia is about to materialise *)
AtEvent == pc = "Materializing"

(* the step of fetchMedia in which the directory exists already *)
SkipStep ==
    /\ fs' = fs
    /\ files' = files
    /\ mkdirs' = mkdirs
    /\ snapGets' = snapGets
    /\ videoCalls' = videoCalls
    /\ request' = NoRequest
    /\ thrown' = thrown
    /\ directoryName' = Undefined
    /\ out' = out \o <<"", "header", "already exists">>
    /\ IF i < Len(data) THEN pc' = "Materializing" /\ i' = i + 1
       ELSE pc' = "Done"

(* C1: an event whose directory exists when fetchMedia reaches it causes
   no change of the file system, no snapshot GET and no delegate call; it
   is logged as already existing and the loop goes on to the next event or
   ends without error. *)
C1_ExistingDirectoryIsSkipped ==
    /\ [](\A k \in 1..Len(visited) :
            ~visited[k].created =>
                /\ SnapshotGetsOf(k) = << >>
                /\ k \notin Range(videoCalls))
    /\ [][(AtEvent /\ NameOf(data[i]) \in fs) => SkipStep]_vars

C1_Witness ==
    /\ pc = "Done"
    /\ Len(visited) = 2
    /\ ~visited[1].created
    /\ visited[2].created
    /\ 2 \in Range(videoCalls)

(* C2: createDirectory called twice with the same name and no other change
   of the directories in between creates the directory once: the first
   call returns the path, the second changes nothing and returns
   undefined. *)
C2_CreateDirectoryIdempotent ==
    /\ [](\A a, b \in 1..Len(visited) :
            (a < b /\ visited[a].name = visited[b].name) => ~visited[b].created)
    /\ [](\A b \in 1..Len(visited) :
            visited[b].created =
                (/\ visited[b].name \notin FsAtStart
                 /\ \A a \in 1..(b - 1) : visited[a].name # visited[b].name))
    /\ [](\A a, b \in 1..Len(mkdirs) : mkdirs[a] = mkdirs[b] => a = b)
    /\ [][AtEvent =>
            IF NameOf(data[i]) \in fs
            THEN fs' = fs /\ directoryName' = Undefined /\ mkdirs' = mkdirs
            ELSE /\ fs' = fs \cup {NameOf(data[i])}
                 /\ directoryName' = <<NameOf(data[i])>>
                 /\ mkdirs' = Append(mkdirs, NameOf(data[i]))]_vars

C2_Witness ==
    /\ Len(visited) = 2
    /\ visited[1].name = visited[2].name
    /\ visited[1].created
    /\ ~visited[2].created
    /\ mkdirs = <<visited[1].name>>

(* C3: in fetchSnapshots a failing fetch or write of one descriptor is
   logged and the following descriptors are still attempted in order, so
   that an event with N descriptors gets exactly N attempts; the failure
   neither prevents the event's video step nor ends the run. *)
C3_SnapshotFaultIsolation ==
    /\ [](\A k \in 1..Len(visited) :
            (/\ visited[k].created
             /\ options.snapshots /\ config.snapshots /\ data[k].hasSnapshots
             /\ (k < Len(visited) \/ pc \in {"SnapshotsDone", "FetchingVideo", "Done"}))
            => SnapshotGetsOf(k) = [n \in 1..Len(data[k].snapshots) |-> <<k, n>>])
    /\ []("snapshot" \in Range(thrown) /\ pc = "Fatal"
            => thrown[Len(thrown)] # "snapshot")
    /\ [][pc = "FetchingSnapshots" =>
            /\ pc' \in {"FetchingSnapshots", "SnapshotsDone"}
            /\ Len(out') > Len(out)
            /\ IF j < Len(data[i].snapshots)
               THEN pc' = "FetchingSnapshots" /\ j' = j + 1
                    /\ snapGets' = Append(snapGets, <<i, j + 1>>)
               ELSE pc' = "SnapshotsDone"]_vars
    /\ [][(pc = "SnapshotsDone" /\ options.videos) =>
            (pc' = "FetchingVideo" /\ videoCalls' = Append(videoCalls, i))]_vars

C3_Witness ==
    /\ pc = "Done"
    /\ thrown = <<"snapshot">>
    /\ Len(visited) = 2
    /\ Len(data[1].snapshots) = 2
    /\ SnapshotGetsOf(1) = <<<<1, 1>>, <<1, 2>>>>
    /\ videoCalls = <<1, 2>>
    /\ out[4] = "Error while fetching file"
    /\ out[5] = "Downloaded file"

(* C4: a failure of the video delegate for event k is not caught: the run
   ends in the fatal state, and no directory is created, no snapshot GET
   issued and no delegate call made for an event after k. *)
C4_DelegateFailureIsFatal ==
    /\ []("delegate" \in Range(thrown) =>
            /\ pc = "Fatal"
            /\ thrown[Len(thrown)] = "delegate"
            /\ Len(visited) = i
            /\ videoCalls # << >>
            /\ videoCalls[Len(videoCalls)] = i
            /\ \A g \in Range(snapGets) : g[1] <= i
            /\ \A v \in Range(videoCalls) : v <= i
            /\ Len(mkdirs) = Cardinality({k \in 1..i : visited[k].created}))
    /\ [][pc = "Fatal" => (pc' = "ResolvingWindow" /\ fs' = fs)]_vars

C4_Witness ==
    /\ pc = "Fatal"
    /\ thrown = <<"delegate">>
    /\ i = 1
    /\ Len(data) = 2
    /\ NameOf(data[2]) \notin fs

(* C5: a failure of the catalog GET ends the run in the fatal state after
   exactly one catalog request, with no event list, no directory created,
   no snapshot GET and no delegate call; the request is never repeated. *)
C5_CatalogFailureIsFatal ==
    /\ []("catalog" \in Range(thrown) =>
            /\ pc = "Fatal"
            /\ thrown = <<"catalog">>
            /\ catalogGets = 1
            /\ data = << >>
            /\ visited = << >>
            /\ mkdirs = << >>
            /\ snapGets = << >>
            /\ videoCalls = << >>)
    /\ [](catalogGets <= 1)
    /\ [][(pc = "QueryingCatalog" /\ ~received'.ok) =>
            (pc' = "Fatal" /\ fs' = fs /\ catalogGets' = catalogGets)]_vars

C5_Witness ==
    /\ pc = "Fatal"
    /\ thrown = <<"catalog">>
    /\ catalogGets = 1
    /\ ~received.ok

(* the events of the response in the order the configuration asks for *)
ProcessingOrder ==
    IF config.reverse THEN Reverse(received.entries) ELSE received.entries

NamesOf(events) == [k \in 1..Len(events) |-> NameOf(events[k])]

RECURSIVE FirstOccurrences(_)
(* s without the repetitions of an element that occurred before *)
FirstOccurrences(s) ==
    IF s = << >> THEN << >>
    ELSE LET rest == FirstOccurrences(SubSeq(s, 1, Len(s) - 1))
         IN  IF s[Len(s)] \in Range(rest) THEN rest ELSE Append(rest, s[Len(s)])

(* the flag changes the order of the events and nothing else: the k-th
   event reached has the start and the end of the k-th event of the
   processing order *)
OrderOnly ==
    /\ Len(visited) = Len(ProcessingOrder)
    /\ \A k \in 1..Len(visited) :
         /\ visited[k].start = ProcessingOrder[k].date
         /\ visited[k].name = NameOf(ProcessingOrder[k])

CompletedRunFromEmpty ==
    /\ pc = "Done"
    /\ received.kind = "array"
    /\ FsAtStart = {}

(* C6 as stated: a completed run into an empty working directory
   materialises the names in exactly the reverse of the catalog's order
   when reverse is set, and in exactly the catalog's order otherwise. *)
C6_AsStated ==
    CompletedRunFromEmpty =>
        /\ mkdirs = NamesOf(ProcessingOrder)
        /\ OrderOnly

(* C6, amended: a completed run into an empty working directory materialises
   the names in the reverse of the catalog's order when reverse is set, and
   in the catalog's order otherwise, each name once, at its first
   occurrence in that order; the flag changes no event's start or end. *)
C6_ProcessingOrder ==
    CompletedRunFromEmpty =>
        /\ mkdirs = FirstOccurrences(NamesOf(ProcessingOrder))
        /\ OrderOnly

C6_Witness ==
    /\ CompletedRunFromEmpty
    /\ config.reverse
    /\ Len(received.entries) = 2
    /\ NameOf(received.entries[1]) # NameOf(received.entries[2])
    /\ mkdirs = <<NameOf(received.entries[2]), NameOf(received.entries[1])>>

(* C7: for an event without an end field the resolved end is the resolved
   start plus minutesIfEndDateIsNull times 60000 milliseconds. *)
C7_FallbackEnd ==
    \A k \in 1..Len(visited) :
        data[k].endDate \in {Null, Missing} =>
            visited[k].end - visited[k].start
                = config.minutesIfEndDateIsNull * 60000

C7_Witness ==
    /\ Len(visited) = 1
    /\ data[1].endDate = Missing
    /\ config.minutesIfEndDateIsNull = 1
    /\ visited[1].start = 1000
    /\ visited[1].end = 61000

(* C8: for an event whose end field is present and not null the resolved
   end is the value of that field, whatever it is; the fallback applies
   only when the field is absent or null; the resolved end is never null. *)
C8_EndSelection ==
    \A k \in 1..Len(visited) :
        /\ data[k].endDate \notin {Null, Missing} =>
               visited[k].end = data[k].endDate
        /\ data[k].endDate \in {Null, Missing} =>
               visited[k].end = visited[k].start
                                + config.minutesIfEndDateIsNull * 60000
        /\ visited[k].end \notin {Null, Missing}

(* C9: when the entries field of the catalog response is absent or no
   array, the run goes to Done without an error and without a line of
   output, creates no directory, issues no snapshot GET and makes no
   delegate call. *)
C9_SilentNoOp ==
    /\ []((received.ok /\ received.kind # "array") =>
            /\ pc = "Done"
            /\ thrown = << >>
            /\ out = << >>
            /\ visited = << >>
            /\ mkdirs = << >>
            /\ snapGets = << >>
            /\ videoCalls = << >>)
    /\ [][(pc = "QueryingCatalog" /\ received'.ok /\ received'.kind # "array")
            => (pc' = "Done" /\ fs' = fs /\ files' = files /\ out' = << >>)]_vars

C9_Witness ==
    /\ pc = "Done"
    /\ received.ok
    /\ received.kind = "object"
    /\ config.count
    /\ received.count # Missing
    /\ fs # {}

(* C10: a directory left incomplete by a run that died inside its
   retrieval is detected by a later run: the event deriving its name is
   skipped without a snapshot GET or a delegate call and the run goes on;
   an event whose directory does not exist is materialised, and a later
   run that completes has a directory for every event of its catalog
   result and has called the delegate, when enabled, for each event it
   materialised. *)
C10_RerunSkipsIncomplete ==
    /\ [](incomplete \subseteq fs)
    /\ [](pc # "Fatal" =>
            \A k \in 1..Len(visited) :
                visited[k].name \in incomplete =>
                    /\ ~visited[k].created
                    /\ SnapshotGetsOf(k) = << >>
                    /\ k \notin Range(videoCalls))
    /\ [](pc = "Done" =>
            \A k \in 1..Len(data) :
                /\ NameOf(data[k]) \in fs
                /\ (visited[k].created /\ options.videos)
                       => k \in Range(videoCalls))
    /\ [][(AtEvent /\ NameOf(data[i]) \in incomplete) =>
            (SkipStep /\ Len(visited') = i)]_vars
    /\ [][(AtEvent /\ NameOf(data[i]) \notin fs) =>
            (/\ pc' = "Materialized"
             /\ visited'[i].created
             /\ mkdirs' = Append(mkdirs, NameOf(data[i])))]_vars

C10_Witness ==
    /\ pc = "Done"
    /\ Len(visited) = 2
    /\ visited[1].name \in incomplete
    /\ ~visited[1].created
    /\ visited[2].created
    /\ videoCalls = <<2>>

(* C11: both retrievals are on unless their flag is given; a run with
   --no-snapshots issues no snapshot GET and a run with --no-videos makes
   no delegate call; each toggle leaves the other retrieval as it is, and
   the directory of a new event is created whatever the toggles are. *)
C11_RetrievalToggles ==
    /\ [](LET opts(flags) ==
                  programOpts(Word("today"), << >>, Word("today"), << >>, flags)
          IN  /\ opts({}).snapshots /\ opts({}).videos
              /\ ~opts({"--no-snapshots"}).snapshots
              /\ opts({"--no-snapshots"}).videos
              /\ opts({"--no-videos"}).snapshots
              /\ ~opts({"--no-videos"}).videos)
    /\ [](~options.snapshots => snapGets = << >>)
    /\ [](~options.videos => videoCalls = << >>)
    /\ [](\A k \in 1..Len(visited) :
            (visited[k].created /\ (k < Len(visited) \/ pc = "Done")) =>
                /\ options.videos => k \in Range(videoCalls)
                /\ (options.snapshots /\ config.snapshots
                      /\ data[k].hasSnapshots)
                     => Len(SnapshotGetsOf(k)) = Len(data[k].snapshots))
    /\ [][(AtEvent /\ NameOf(data[i]) \notin fs) =>
            (fs' = fs \cup {NameOf(data[i])} /\ pc' = "Materialized")]_vars

C11_Witness ==
    /\ pc = "Done"
    /\ ~options.snapshots
    /\ options.videos
    /\ Len(visited) = 2
    /\ visited[1].created
    /\ visited[2].created
    /\ \E k \in 1..2 : data[k].hasSnapshots /\ data[k].snapshots # << >>
    /\ videoCalls = <<1, 2>>
    /\ snapGets = << >>

-----------------------------------------------------------------------------
(* the date tokens of the command lines, and their kinds *)
DateTokens ==
    {o.startDate : o \in OptionsSet} \cup {o.endDate : o \in OptionsSet}

CalendarValid(t) ==
    /\ t.word = "" /\ Len(t.digits) = 8
    /\ LET y == Number(SubSeq(t.digits, 1, 4))
           m == Number(SubSeq(t.digits, 5, 6))
           d == Number(SubSeq(t.digits, 7, 8))
       IN  m \in 1..12 /\ d \in 1..DaysInMonth(y, m)

LiteralKeyword(t) == t.word \in {"today", "yesterday"}

Keyword(t) ==
    t.word \in {"today", "Today", "TODAY", "yesterday", "Yesterday", "YESTERDAY"}

(* a run that ended while computing the window, having done nothing else *)
EndsInWindow ==
    /\ pc' = "Fatal" /\ thrown' = <<"getTimes">>
    /\ catalogGets' = 0 /\ request' = NoRequest
    /\ fs' = fs /\ mkdirs' = << >>

(* C12 as stated: a date specification that is neither the literal 'today',
   the literal 'yesterday' nor a calendar-valid 8-character token ends the
   run in a fatal error while the window is computed. *)
C12_AsStated ==
    [][(/\ pc = "ResolvingWindow"
        /\ \E t \in {options.startDate, options.endDate} :
               ~LiteralKeyword(t) /\ ~CalendarValid(t)) => EndsInWindow]_vars

(* C12: a date specification that is neither 'today' nor 'yesterday' in any
   letter case, nor a calendar-valid 8-character token, makes getDate yield
   an undefined date, and the run ends in a fatal error while the window is
   computed: no catalog query is issued and no directory is created.  A run
   fails in the window only this way. *)
C12_UnresolvableDateIsFatal ==
    /\ [](\A t \in DateTokens, now \in Nows :
            getDate(t, now).defined <=> (Keyword(t) \/ CalendarValid(t)))
    /\ [][(/\ pc = "ResolvingWindow"
           /\ \E t \in {options.startDate, options.endDate} :
                  ~Keyword(t) /\ ~CalendarValid(t)) => EndsInWindow]_vars
    /\ []("getTimes" \in Range(thrown) =>
            /\ pc = "Fatal" /\ catalogGets = 0 /\ request = NoRequest
            /\ mkdirs = << >> /\ visited = << >>
            /\ snapGets = << >> /\ videoCalls = << >>
            /\ \E t \in {options.startDate, options.endDate} :
                   ~Keyword(t) /\ ~CalendarValid(t))

(* a run given 20240230 as its end date failed in the window, in a
   directory that earlier runs had filled *)
C12_Witness ==
    /\ pc = "Fatal" /\ thrown = <<"getTimes">>
    /\ options.endDate = Token(<<2, 0, 2, 4, 0, 2, 3, 0>>)
    /\ catalogGets = 0 /\ mkdirs = << >> /\ fs # {}

-----------------------------------------------------------------------------
(* Window resolution on its own: runs that stop at the catalog query, over
   command lines of resolvable dates and HHmm times *)

WindowDates ==
    {Token(<<2, 0, 2, 4, 0, 1, 0, 1>>), Token(<<2, 0, 2, 4, 0, 1, 0, 3>>),
     Token(<<2, 0, 2, 4, 0, 1, 1, 5>>), Word("today"), Word("yesterday")}

WindowTimes ==
    {<< >>, <<0, 0, 0, 0>>, <<0, 9, 3, 0>>, <<1, 2, 0, 5>>, <<2, 3, 5, 9>>}

WindowOptions ==
    {programOpts(sd, st, ed, et, {}) :
        sd \in WindowDates, st \in WindowTimes,
        ed \in WindowDates, et \in WindowTimes}

WindowNows == {Moment(4, 13, 45, 30, 250), Moment(9, 0, 0, 59, 999)}

InitWindow ==
    /\ config = DefaultConfig
    /\ options \in WindowOptions
    /\ pc = "ResolvingWindow"
    /\ fs = {}
    /\ files = {}
    /\ request = NoRequest
    /\ count = Null
    /\ data = << >>
    /\ i = 0
    /\ j = 0
    /\ startDate = 0
    /\ endDate = 0
    /\ directoryName = Undefined
    /\ out = << >>
    /\ catalogGets = 0
    /\ received = NoResponse
    /\ thrown = << >>
    /\ mkdirs = << >>
    /\ snapGets = << >>
    /\ videoCalls = << >>
    /\ visited = << >>
    /\ incomplete = {}

NextWindow == \E now \in WindowNows : GetTimes(now)

SpecWindow == InitWindow /\ [][NextWindow]_vars

MsPerHour == 60 * MsPerMinute
MsPerDay == 24 * MsPerHour

(* the day of the model's calendar a valid date token names *)
DayOf(ds) ==
    LET y == Number(SubSeq(ds, 1, 4))
        m == Number(SubSeq(ds, 5, 6))
        d == Number(SubSeq(ds, 7, 8))
    IN  DaysBeforeYear(y) + DaysBeforeMonth(y, m) + d - 1

(* the milliseconds value the claim gives a date and time specification *)
Resolved(t, time, now) ==
    LET day == IF t.word = "" THEN DayOf(t.digits)
               ELSE IF t.word = "yesterday" THEN now.day - 1 ELSE now.day
        timeOfDay == IF t.word = "" THEN 0
                     ELSE now.hour * MsPerHour + now.minute * MsPerMinute
                          + now.second * MsPerSecond + now.ms
    IN  day * MsPerDay
        + (IF time = << >> THEN timeOfDay
           ELSE (10 * time[1] + time[2]) * MsPerHour
                + (10 * time[3] + time[4]) * MsPerMinute
                + (timeOfDay % MsPerSecond))

(* C13: a date token D with a time token HHmm resolves to D at HH:mm:00.000,
   a keyword with a time token to the keyword's day at HH:mm:00 with the
   milliseconds of the clock reading, and without a time token the date
   keeps its time of day (midnight for D, the clock reading for a keyword);
   both ends of the window of the catalog query are resolved this way. *)
C13_WindowResolution ==
    pc = "QueryingCatalog" =>
        \E now \in WindowNows :
            /\ request.a = Resolved(options.startDate, options.startTime, now)
            /\ request.b = Resolved(options.endDate, options.endTime, now)

(* 20240103 at 0930 resolved to 02d 09:30:00.000, up to today as it is *)
C13_Witness ==
    /\ pc = "QueryingCatalog"
    /\ options.startDate = Token(<<2, 0, 2, 4, 0, 1, 0, 3>>)
    /\ options.startTime = <<0, 9, 3, 0>>
    /\ options.endDate = Word("today") /\ options.endTime = << >>
    /\ request.a = 207000000
    /\ request.b = 395130250

-----------------------------------------------------------------------------
(* Snapshot file names on their own: one event whose snapshots carry no
   display name, every download succeeding *)

Unnamed(n) == [k \in 1..n |-> Descriptor(k, << >>)]

UnnamedResponses ==
    {Response(TRUE, TRUE, "array", <<Motion(1000, 181500, TRUE, Unnamed(n))>>) :
        n \in 1..MaxDescriptors}

InitFilenames ==
    /\ config = DefaultConfig
    /\ options \in {programOpts(Token(<<2, 0, 2, 4, 0, 1, 0, 3>>), <<0, 9, 3, 0>>,
                                 Word("today"), <<2, 3, 5, 9>>, flags) :
                        flags \in {{}, {"--no-videos"}}}
    /\ pc = "QueryingCatalog"
    /\ fs = {}
    /\ files = {}
    /\ \E now \in Nows : request = CatalogRequest(getTimes(options, now))
    /\ count = Null
    /\ data = << >>
    /\ i = 0
    /\ j = 0
    /\ startDate = 0
    /\ endDate = 0
    /\ directoryName = Undefined
    /\ out = << >>
    /\ catalogGets = 1
    /\ received = NoResponse
    /\ thrown = << >>
    /\ mkdirs = << >>
    /\ snapGets = << >>
    /\ videoCalls = << >>
    /\ visited = << >>
    /\ incomplete = {}

NextFilenames ==
    \/ \E response \in UnnamedResponses : CatalogResponse(response)
    \/ FetchMedia
    \/ BeginSnapshots
    \/ SnapshotResponse("ok")

SpecFilenames == InitFilenames /\ [][NextFilenames]_vars

RECURSIVE Pow10(_)
Pow10(w) == IF w = 0 THEN 1 ELSE 10 * Pow10(w - 1)

(* len(String(n)) *)
Width(n) == CHOOSE w \in 1..4 : Pow10(w - 1) <= n /\ n < Pow10(w)

(* the numeral of n in exactly w decimal digits *)
Decimal(n, w) ==
    [k \in 1..w |->
        <<"0", "1", "2", "3", "4", "5", "6", "7", "8", "9">>
            [((n \div Pow10(w - k)) % 10) + 1]]

(* C14: while and after the N unnamed snapshots of an event are downloaded,
   the files written are those of the numbers 1..k of the descriptors done
   so far, in descriptor order, each as a numeral of exactly len(String(N))
   digits (so the names increase strictly), and they are pairwise distinct:
   k descriptors leave k files. *)
C14_FallbackFilenames ==
    pc \in {"FetchingSnapshots", "SnapshotsDone"} =>
        LET n == Len(data[i].snapshots)
            done == IF pc = "SnapshotsDone" THEN n ELSE j - 1
        IN  /\ files = {Decimal(k, Width(n)) \o <<".", "jpg">> : k \in 1..done}
            /\ Cardinality(files) = done

(* ten unnamed snapshots were written as 01 .. 10 *)
C14_Witness ==
    /\ pc = "SnapshotsDone" /\ Len(data[1].snapshots) = 10
    /\ <<"0", "1", ".", "jpg">> \in files
    /\ <<"1", "0", ".", "jpg">> \in files
    /\ Cardinality(files) = 10

-----------------------------------------------------------------------------
(* the position of the run that goes with a request in flight *)
AwaitedAt(kind) ==
    CASE kind = "catalog" -> "QueryingCatalog"
      [] kind = "snapshot" -> "FetchingSnapshots"
      [] kind = "video" -> "FetchingVideo"

(* C15: the one request in flight is the one the run is waiting for, and
   without one the run waits for nothing; the snapshot fetches of an event
   are issued in descriptor order, each after the one before it has
   settled; the video call of an event starts with nothing in flight and
   with the event's snapshot fetches all done (or none, when they are
   off), and no snapshot of the event is fetched after it; a directory is
   created with nothing in flight and after the video calls of all earlier
   events. *)
C15_StrictSequencing ==
    /\ [](/\ request.kind # "none" => pc = AwaitedAt(request.kind)
          /\ pc \in {"QueryingCatalog", "FetchingSnapshots", "FetchingVideo"}
                => request.kind # "none")
    /\ [](/\ \A a, b \in 1..Len(snapGets) : a < b => snapGets[a][1] <= snapGets[b][1]
          /\ \A k \in 1..Len(data) :
                SnapshotGetsOf(k) = [m \in 1..Len(SnapshotGetsOf(k)) |-> <<k, m>>])
    /\ [][Len(snapGets') > Len(snapGets) =>
            /\ request'.kind = "snapshot"
            /\ request.kind = "none" \/ (request.kind = "snapshot" /\ j' = j + 1)
            /\ i \notin Range(videoCalls)]_vars
    /\ [][Len(videoCalls') > Len(videoCalls) =>
            /\ request.kind = "none" /\ request'.kind = "video"
            /\ videoCalls' = Append(videoCalls, i)
            /\ Len(SnapshotGetsOf(i)) \in {0, Len(data[i].snapshots)}]_vars
    /\ [][Len(mkdirs') > Len(mkdirs) =>
            /\ request.kind = "none" /\ request'.kind = "none"
            /\ \A k \in Range(videoCalls) : k < i]_vars

(* the second event's video call is in flight after three snapshot fetches
   and the first event's video call *)
C15_Witness ==
    /\ pc = "FetchingVideo" /\ i = 2 /\ request.kind = "video"
    /\ videoCalls = <<1, 2>> /\ Len(mkdirs) = 2
    /\ snapGets = <<<<1, 1>>, <<1, 2>>, <<2, 1>>>>

-----------------------------------------------------------------------------
(* C16: for a newly materialized event whose snapshot collection is absent
   or empty, no snapshot is fetched, no error is raised and the run goes
   on to the event's video step; a snapshot is fetched only when snapshot
   retrieval is enabled and the collection is not empty. *)
C16_SnapshotGuard ==
    /\ [][(pc = "Materialized"
            /\ (~data[i].hasSnapshots \/ data[i].snapshots = << >>)) =>
              /\ pc' = "SnapshotsDone"
              /\ thrown' = thrown /\ snapGets' = snapGets
              /\ request' = NoRequest]_vars
    /\ [][Len(snapGets') > Len(snapGets) =>
            /\ options.snapshots
            /\ data[i].hasSnapshots /\ data[i].snapshots # << >>]_vars

-----------------------------------------------------------------------------
(* Runs whose I/O calls all settle: every step of a run that can be taken
   is taken eventually; whether another run is started is up to the user *)

Step ==
    \/ \E now \in Nows : GetTimes(now)
    \/ \E response \in Responses : CatalogResponse(response)
    \/ FetchMedia
    \/ BeginSnapshots
    \/ \E outcome \in {"ok", "get failed", "write failed"} : SnapshotResponse(outcome)
    \/ BeginVideo
    \/ \E ok \in BOOLEAN : VideoResult(ok)

(* the runs under the configuration as shipped *)
InitFair == Init /\ config = DefaultConfig

SpecFair == InitFair /\ [][Next]_vars /\ WF_vars(Step)

Terminal == pc \in {"Done", "Fatal"}

(* C17: when every I/O call settles, a run that is in ResolvingWindow
   reaches Done or a fatal error; it stays in the terminal state it reached
   until another run is started; and at Done every event of the catalog's
   list has been visited once, in the order of processing. *)
C17_Termination ==
    /\ (pc = "ResolvingWindow") ~> Terminal
    /\ [][Terminal => pc' = "ResolvingWindow"]_vars
    /\ [](pc = "Done" =>
            /\ Len(visited) = Len(received.entries)
            /\ Len(data) = Len(received.entries)
            /\ \A k \in 1..Len(data) : visited[k].name = NameOf(data[k]))

(* a run over two events is done: one was materialized, one skipped *)
C17_Witness ==
    /\ pc = "Done" /\ Len(received.entries) = 2 /\ Len(visited) = 2
    /\ visited[1].created /\ ~visited[2].created

-----------------------------------------------------------------------------
(* the summary lines printed so far by the run *)
Summaries == SelectSeq(out, LAMBDA line : line = "motions found")

(* C18: once the catalog has answered, the count is null exactly when no
   count field is configured; the summary is printed at most once and
   before the first event is materialized, it is printed for a list of
   events whose count is known, and it is never printed when the count is
   unknown: no count field configured, or no count value in the
   response. *)
C18_CountSummary ==
    (received.kind # "none" /\ received.ok) =>
        /\ (count = Null) <=> ~config.count
        /\ Len(Summaries) <= 1
        /\ Summaries # << >> => Head(out) = "motions found"
        /\ (received.kind = "array" /\ count \notin {Null, Missing})
              => Summaries # << >>
        /\ (~config.count \/ received.count = Missing) => Summaries = << >>

-----------------------------------------------------------------------------
(* The authentication object on its own: one event retrieved under every
   roster of up to MaxCameras cameras *)

RECURSIVE RostersOf(_)
RostersOf(n) ==
    IF n = 0 THEN {<< >>}
    ELSE {Append(r, Camera(n, present)) :
            r \in RostersOf(n - 1), present \in SUBSET Keys}

Rosters == UNION {RostersOf(n) : n \in 1..MaxCameras}

InitAuth ==
    /\ config \in {[DefaultConfig EXCEPT !.cameras = r] : r \in Rosters}
    /\ options = programOpts(Token(<<2, 0, 2, 4, 0, 1, 0, 3>>), <<0, 9, 3, 0>>,
                             Word("today"), <<2, 3, 5, 9>>, {})
    /\ pc = "QueryingCatalog"
    /\ fs = {}
    /\ files = {}
    /\ \E now \in Nows : request = CatalogRequest(getTimes(options, now))
    /\ count = Null
    /\ data = << >>
    /\ i = 0
    /\ j = 0
    /\ startDate = 0
    /\ endDate = 0
    /\ directoryName = Undefined
    /\ out = << >>
    /\ catalogGets = 1
    /\ received = NoResponse
    /\ thrown = << >>
    /\ mkdirs = << >>
    /\ snapGets = << >>
    /\ videoCalls = << >>
    /\ visited = << >>
    /\ incomplete = {}

(* the catalog's answer: one event with one snapshot *)
AuthResponse ==
    Response(TRUE, TRUE, "array", <<Motion(1000, 181500, TRUE, Unnamed(1))>>)

NextAuth ==
    \/ CatalogResponse(AuthResponse)
    \/ FetchMedia
    \/ BeginSnapshots
    \/ SnapshotResponse("ok")
    \/ BeginVideo
    \/ \E ok \in BOOLEAN : VideoResult(ok)

SpecAuth == InitAuth /\ [][NextAuth]_vars

(* the sequence of the authentication object that holds a property *)
Plural(key) ==
    CASE key = "host" -> "hosts"
      [] key = "username" -> "usernames"
      [] key = "password" -> "passwords"
      [] key = "ssl" -> "ssls"

(* C19: the authentication object of the video call has one sequence per
   property, without empty values, and each camera has a position at which
   every property the camera has a value for holds that value in the
   property's sequence: the values of one camera line up across the
   sequences. *)
C19_AuthTransposition ==
    request.kind = "video" =>
        LET cameras == config.cameras
            auth == request.auth
        IN  /\ \A key \in Keys : Undefined \notin Range(auth[Plural(key)])
            /\ \A c \in 1..Len(cameras) : \E p \in 1..Len(cameras) :
                  \A key \in Keys :
                     cameras[c][key] # Undefined =>
                        /\ p <= Len(auth[Plural(key)])
                        /\ auth[Plural(key)][p] = cameras[c][key]

-----------------------------------------------------------------------------
(* the events of this run for which media were requested *)
Retrieved == Range(videoCalls) \cup {g[1] : g \in Range(snapGets)}

(* C20: over any sequence of runs in one working directory, media are
   requested for a directory name only in the run that created the
   directory and only once: directories are never removed and a directory
   is created only when none of its name exists, so at most one run
   creates a name; a run requests media only for events whose directory it
   created, these have pairwise distinct names, and each gets at most one
   delegate call and at most one pass over its snapshots; an event whose
   directory exists already, however it was made, gets nothing. *)
C20_AtMostOncePerDirectory ==
    /\ [][fs \subseteq fs']_vars
    /\ [][Len(mkdirs') > Len(mkdirs) =>
            \E name \in fs' \ fs :
                fs' = fs \cup {name} /\ mkdirs' = Append(mkdirs, name)]_vars
    /\ [](\A k \in Retrieved : k <= Len(visited) /\ visited[k].created)
    /\ [](\A a, b \in 1..Len(visited) :
            (a < b /\ visited[a].created /\ visited[b].created)
                => visited[a].name # visited[b].name)
    /\ [](\A a, b \in 1..Len(videoCalls) : a < b => videoCalls[a] # videoCalls[b])
    /\ [](\A k \in 1..Len(data) :
            Len(SnapshotGetsOf(k)) <= Len(data[k].snapshots))
    /\ [][(AtEvent /\ NameOf(data[i]) \in fs) =>
            /\ videoCalls' = videoCalls /\ snapGets' = snapGets
            /\ request' = NoRequest /\ fs' = fs]_vars

(* a run with both retrievals on has skipped an event whose directory an
   earlier run had completed, and has retrieved another *)
C20_Witness ==
    /\ pc = "Done" /\ options.videos /\ options.snapshots
    /\ Len(visited) = 2 /\ ~visited[1].created /\ visited[2].created
    /\ visited[1].name \in FsAtStart \ incomplete
    /\ videoCalls = <<2>>

-----------------------------------------------------------------------------
(* two windows with the same start to the second and the same end time of
   day to the second *)
SameSecondAndTimeOfDay(s1, e1, s2, e2) ==
    /\ s1 \div MsPerSecond = s2 \div MsPerSecond
    /\ (e1 \div MsPerSecond) % SecondsPerDay = (e2 \div MsPerSecond) % SecondsPerDay

(* the events at positions a and b of this run derive the same name *)
Collide(a, b) ==
    SameSecondAndTimeOfDay(visited[a].start, visited[a].end,
                           visited[b].start, visited[b].end)

(* instants a second, a minute and a day apart, and within one second *)
Instants == {1000, 1999, 2000, 61000, 181000, 181500, 86400000 + 1000,
             86400000 + 181000}

(* over these instants, windows derive the same name exactly when they
   agree in the start second and in the end time of day *)
NameIsSecondAndTimeOfDay ==
    \A s1, e1, s2, e2 \in Instants :
        (FormatName(s1, e1) = FormatName(s2, e2))
            <=> SameSecondAndTimeOfDay(s1, e1, s2, e2)

(* C21: two windows derive the same directory name exactly when they have
   the same start to the second and the same end time of day, whatever the
   date and the milliseconds of the end; of the events of one run that
   derive the same name, only the first in processing order can be
   materialized and retrieved, every later one is skipped; and the run has
   created as many directories as there are distinct names among the
   events visited that were not on disk when it started, which at Done
   are all the events of the catalog result. *)
C21_NameCollisions ==
    /\ []NameIsSecondAndTimeOfDay
    /\ [](\A a, b \in 1..Len(visited) :
            /\ (visited[a].name = visited[b].name) <=> Collide(a, b)
            /\ (a < b /\ Collide(a, b)) =>
                  /\ ~visited[b].created
                  /\ b \notin Retrieved)
    /\ [](\A a \in 1..Len(visited) :
            (\A c \in 1..(a - 1) : ~Collide(c, a)) =>
                (visited[a].created <=> visited[a].name \notin FsAtStart))
    /\ [](Len(mkdirs) =
            Cardinality({visited[k].name : k \in 1..Len(visited)} \ FsAtStart))
    /\ [](pc = "Done" =>
            Len(mkdirs) =
                Cardinality({NameOf(data[k]) : k \in 1..Len(data)} \ FsAtStart))
    /\ [][(AtEvent /\ \E a \in 1..Len(visited) :
                SameSecondAndTimeOfDay(
                    visited[a].start, visited[a].end, data[i].date,
                    IF Truthy(data[i].endDate) THEN data[i].endDate
                    ELSE data[i].date
                         + config.minutesIfEndDateIsNull * MsPerMinute))
            => (SkipStep /\ ~visited'[i].created)]_vars

(* a run into an empty directory is done with two different events of
   one name: the first was materialized and retrieved, the second skipped *)
C21_Witness ==
    /\ pc = "Done" /\ FsAtStart = {} /\ Len(visited) = 2
    /\ data[1] # data[2] /\ visited[1].end # visited[2].end
    /\ visited[1].name = visited[2].name
    /\ visited[1].created /\ ~visited[2].created
    /\ Len(mkdirs) = 1 /\ videoCalls = <<1>>

-----------------------------------------------------------------------------
(* the lines printed since the last Snapshots heading *)
SinceHeading ==
    LET at == {k \in 1..Len(out) : out[k] = "Snapshots"}
    IN  IF at = {} THEN << >>
        ELSE SubSeq(out, (CHOOSE k \in at : \A m \in at : m <= k) + 1, Len(out))

(* the snapshots of the current event fetched and written so far *)
Downloads == Len(SelectSeq(SinceHeading, LAMBDA line : line = "Downloaded file"))

(* C22: while and after the snapshots of an event are retrieved, the file
   names chosen for its descriptors are pairwise distinct, and the event's
   directory holds as many files as snapshots were fetched and written. *)
C22_NoOverwrite ==
    pc \in {"FetchingSnapshots", "SnapshotsDone"} =>
        /\ Cardinality(files) = Downloads
        /\ pc = "FetchingSnapshots" =>
              \A a, b \in 1..Len(data[i].snapshots) :
                  a # b => FileName(data[i].snapshots, a)
                             # FileName(data[i].snapshots, b)

====
